---- MODULE Spec2Model ----
(***************************************************************************)
(* The generation-barrier orchestrator of swatplus_utility.                *)
(*                                                                         *)
(* Loop mode: CHTC/iterative_dag_jobs/controller.py and its split twin     *)
(* prepare.py / check.py, with the worker scripts of test_chtc.  The files *)
(* of the working directory are the state: iteration.state, the per        *)
(* generation graph files and run directories, worker_jobs_current.dag,    *)
(* all_results.csv and continue_signal.txt.  A step of the controller is   *)
(* one process; its file operations are the atomic actions.                *)
(*                                                                         *)
(* Sweep mode: the collection with duplicate broadcast of                  *)
(* sensitivity/sensitivity_analysis_onestep.py, and the two-step sweep of  *)
(* sensitivity/ctrl_sensitivity_sample.py, worker_runmodel.py and          *)
(* ctrl_sensitivity_analyze.py.                                            *)
(***************************************************************************)
EXTENDS Integers, Sequences, FiniteSets, TLC

VARIABLES
    MAX_ITERATIONS,   \* the configured maximum (controller.py:8, check.py:6)
    entropy,          \* the seed the random module takes in this workflow
    state_file,       \* iteration.state
    signal_file,      \* continue_signal.txt
    results_file,     \* all_results.csv
    gen_dirs,         \* multi_runs/gen_<g>/run_<i>/{params.txt, efficiency.txt}
    dag_files,        \* worker_jobs_gen_<g>.dag
    current_symlink,  \* worker_jobs_current.dag
    pc,               \* position of the running controller process
    current_gen,      \* its local current_gen
    next_gen,         \* its local next_gen (gen_num of prepare_generation)
    last,             \* the step that ended last and its exit status
    invocations,      \* history: number of steps started so far
    rounds_done,      \* history: number of check steps that ran to the end
    signal_fresh,     \* history: the signal was written by the latest check step
    gen_before,       \* history: the persisted Generation when the step started
    call,             \* the function harness: the call in progress and its result
    sample_array,     \* sweep: the sample matrix, rows may repeat
    unique_array,     \* sweep: numpy.unique(sample_array, axis=0)
    outlet_results,   \* sweep: OutletsResults_<idx>/model_performance.json
    results_map,      \* sweep: sample vector -> indicators
    data_rows,        \* sweep: the rows of the indicator table
    sweep_pc,         \* sweep: position of the one-step script
    fast_sample_file,   \* sweep: multi_runs/fast_samples.npz
    morris_sample_file, \* sweep: multi_runs/morris_samples.npz
    sensim_file,        \* sweep: multi_runs/sensitivity_simulation.json
    cal_files,          \* sweep: multi_runs/sim_<i>.cal
    worker_jobs_dag,    \* sweep: worker_jobs.dag
    result_dirs,        \* sweep: multi_runs/OutletsResults_<i>/model_performance.json
    indicator_file,     \* sweep: multi_runs/model_performances_all.csv
    json_file,          \* sweep: multi_runs/sensitivity_result.json
    ctrl,               \* sweep: history of the sample, run and analyze steps
    tio_dir,            \* sweep: the baseline directory TxtInOut (calibration.cal)
    workers,            \* sweep: the worker processes of the submitted graph
    param_def_file,     \* sweep: the parameter definition file
    spatial_data_config,\* sweep: the spatial group data loaded from JSON
    param_def,          \* sweep: the list parse_parameter_file returned
    parse_call          \* the parser harness: the script whose parser ran

loopVars == <<MAX_ITERATIONS, entropy, state_file, signal_file, results_file,
              gen_dirs, dag_files, current_symlink, pc, current_gen, next_gen,
              last, invocations, rounds_done, signal_fresh, gen_before, call>>
ctrlVars == <<fast_sample_file, morris_sample_file, sensim_file, cal_files,
              worker_jobs_dag, result_dirs, indicator_file, json_file, ctrl,
              tio_dir, workers>>
parseVars == <<param_def_file, spatial_data_config, param_def, parse_call>>
sweepVars == <<sample_array, unique_array, outlet_results, results_map,
               data_rows, sweep_pc, ctrlVars, parseVars>>
vars == <<loopVars, sweepVars>>

----------------------------------------------------------------------------
(* Configuration: controller.py lines 7-8.                                  *)

NUM_JOBS_PER_ITER == 5
\* The maximum the repository ships; a workflow may be configured with less.
SHIPPED_MAX_ITERATIONS == 3
\* random.randint(1, 100)
RANDINT_HIGH == 100

\* Bounds of the model.
MaxSeed == 2
MaxSteps == 5
MaxGenArg == 12
MaxConfigured == 4
SweepRows == 3
CtrlRows == 3
MaxSampleSteps == 2
MaxAnalyses == 2
ConfDraws == 2

Jobs == 0 .. (NUM_JOBS_PER_ITER - 1)

----------------------------------------------------------------------------
(* Text.  A file holds a sequence of characters.                            *)

Digits == <<"0", "1", "2", "3", "4", "5", "6", "7", "8", "9">>
DigitSet == {Digits[k] : k \in 1..10}
Whitespace == {" ", "\n"}

DigitVal(c) == (CHOOSE k \in 1..10 : Digits[k] = c) - 1

RECURSIVE NatStr(_)
NatStr(n) == IF n < 10 THEN <<Digits[n + 1]>>
             ELSE NatStr(n \div 10) \o <<Digits[(n % 10) + 1]>>

\* str(n) of a Python int.
str(n) == IF n < 0 THEN <<"-">> \o NatStr(-n) ELSE NatStr(n)

RECURSIVE lstrip(_)
lstrip(t) == IF t # <<>> /\ Head(t) \in Whitespace THEN lstrip(Tail(t)) ELSE t

RECURSIVE rstrip(_)
rstrip(t) == IF t # <<>> /\ t[Len(t)] \in Whitespace
             THEN rstrip(SubSeq(t, 1, Len(t) - 1)) ELSE t

\* text.strip()
strip(t) == rstrip(lstrip(t))

RECURSIVE DigitsVal(_)
DigitsVal(t) == IF t = <<>> THEN 0
                ELSE 10 * DigitsVal(SubSeq(t, 1, Len(t) - 1)) + DigitVal(t[Len(t)])

AllDigits(t) == t # <<>> /\ \A k \in 1..Len(t) : t[k] \in DigitSet

\* int(text): an optional sign and decimal digits between optional whitespace;
\* anything else raises ValueError (ok = FALSE).
int(t) ==
    LET s == strip(t)
        signed == s # <<>> /\ Head(s) \in {"-", "+"}
        body == IF signed THEN Tail(s) ELSE s
    IN  IF AllDigits(body)
        THEN [ok |-> TRUE,
              value |-> IF signed /\ Head(s) = "-" THEN 0 - DigitsVal(body)
                        ELSE DigitsVal(body)]
        ELSE [ok |-> FALSE, value |-> 0]

----------------------------------------------------------------------------
(* Files.                                                                   *)

NoFile == [exists |-> FALSE, content |-> <<>>]
\* open(path, 'w'): creates or truncates.
open_w == [exists |-> TRUE, content |-> <<>>]
write(f, t) == [f EXCEPT !.content = @ \o t]

CONTINUE_TOKEN == <<"c", "o", "n", "t", "i", "n", "u", "e">>
NA == <<"N", "A">>

----------------------------------------------------------------------------
(* The generation state store.                                              *)

\* controller.py and prepare.py: absent or invalid reads as 0.
get_current_generation ==
    IF state_file.exists
    THEN IF int(state_file.content).ok
         THEN [exit |-> FALSE, value |-> int(state_file.content).value]
         ELSE [exit |-> FALSE, value |-> 0]
    ELSE [exit |-> FALSE, value |-> 0]

\* check.py: absent or invalid ends the process with exit(1).
check_get_current_generation ==
    IF state_file.exists
    THEN IF int(state_file.content).ok
         THEN [exit |-> FALSE, value |-> int(state_file.content).value]
         ELSE [exit |-> TRUE, value |-> 0]
    ELSE [exit |-> TRUE, value |-> 0]

\* The record opened without truncation, as mode 'a' or 'r+' would.
update_generation_no_truncate(gen_num) ==
    write([exists |-> TRUE, content |-> state_file.content], str(gen_num))

\* update_generation(gen_num): the file once the with block has closed it.
update_generation(gen_num) == write(open_w, str(gen_num))

\* The Generation a bootstrap reader finds persisted.
PersistedGeneration == get_current_generation.value

----------------------------------------------------------------------------
(* prepare_generation(gen_num).                                             *)

\* The n-th draw of random.randint(1, 100) in the process that prepares gen g.
random_randint(g, n) == 1 + ((entropy * 7 + g * 13 + n * 3) % RANDINT_HIGH)

\* f.write(f"{random.randint(1, 100)}\n") twice.
params_text(g, i) ==
    str(random_randint(g, 2 * i)) \o <<"\n">> \o
    str(random_randint(g, 2 * i + 1)) \o <<"\n">>

NoRunDir == [params |-> NoFile, efficiency |-> NoFile]

\* os.makedirs(..., exist_ok=True) keeps what a directory already holds.
RunDirOf(g, i) == IF g \in DOMAIN gen_dirs THEN gen_dirs[g][i] ELSE NoRunDir

\* One node of the graph file: JOB run_<i> worker.sub and its VARS lines
\* (ParamFile, RunDir, GenNum, NodeName); keywords are the first words of the
\* lines written for the node.
dag_node(g, i) == [node_name |-> i, ParamFile |-> <<g, i, "params.txt">>,
                   RunDir |-> <<g, i>>, GenNum |-> g, NodeName |-> i,
                   keywords |-> <<"JOB", "VARS", "VARS", "VARS", "VARS">>]

dag_text(g) == [k \in 1..NUM_JOBS_PER_ITER |-> dag_node(g, k - 1)]

\* The parameters of the new generation written into the run directories of
\* every generation.
prepare_generation_files_all(gen_num) ==
    /\ gen_dirs' = [g \in DOMAIN gen_dirs \cup {gen_num} |->
                     [i \in Jobs |->
                        [RunDirOf(g, i) EXCEPT
                           !.params = write(open_w, params_text(gen_num, i))]]]
    /\ dag_files' = [g \in DOMAIN dag_files \cup {gen_num} |->
                      IF g = gen_num THEN dag_text(g) ELSE dag_files[g]]

\* Lines 35-57: the directories, the parameter files and the graph file.
prepare_generation_files(gen_num) ==
    /\ gen_dirs' = [g \in DOMAIN gen_dirs \cup {gen_num} |->
                     IF g = gen_num
                     THEN [i \in Jobs |->
                            [RunDirOf(g, i) EXCEPT
                               !.params = write(open_w, params_text(g, i))]]
                     ELSE gen_dirs[g]]
    /\ dag_files' = [g \in DOMAIN dag_files \cup {gen_num} |->
                      IF g = gen_num THEN dag_text(g) ELSE dag_files[g]]

NoLink == [exists |-> FALSE, target |-> 0]

\* The link left pointing at the graph of the generation before.
os_symlink_previous(gen_num) == [exists |-> TRUE, target |-> gen_num - 1]

\* Line 62: os.symlink(worker_dag_file, link); the link names worker_jobs_gen_<gen_num>.dag.
os_symlink(gen_num) == [exists |-> TRUE, target |-> gen_num]

----------------------------------------------------------------------------
(* gather_and_append_results(gen_num) and check_continue(gen_num).          *)

NoTable == [exists |-> FALSE, header |-> FALSE, rows |-> <<>>]

\* Lines 83-93: one job's row.
result_row(gen_num, i) ==
    LET result_file == RunDirOf(gen_num, i).efficiency
    IN  [generation |-> gen_num, run_id |-> i,
         efficiency |-> IF result_file.exists
                        THEN strip(result_file.content) ELSE NA]

\* The loop ended by the first missing result file, as an uncaught
\* FileNotFoundError would end it.
gathered_rows_stop_at_missing(gen_num) ==
    LET missing == {k \in 1..NUM_JOBS_PER_ITER :
                      ~RunDirOf(gen_num, k - 1).efficiency.exists}
        n == IF missing = {} THEN NUM_JOBS_PER_ITER
             ELSE (CHOOSE k \in missing : \A m \in missing : k <= m) - 1
    IN  [k \in 1..n |-> result_row(gen_num, k - 1)]

gathered_rows(gen_num) == [k \in 1..NUM_JOBS_PER_ITER |-> result_row(gen_num, k - 1)]

\* The table opened with mode 'w': earlier rows are lost.
gather_and_overwrite_results(gen_num) ==
    [exists |-> TRUE, header |-> TRUE, rows |-> gathered_rows(gen_num)]

\* The new rows written in front of the rows the table already holds.
gather_and_prepend_results(gen_num) ==
    [exists |-> TRUE,
     header |-> IF results_file.exists THEN results_file.header ELSE TRUE,
     rows |-> gathered_rows(gen_num) \o results_file.rows]

\* The table once gather_and_append_results(gen_num) has returned.
gather_and_append_results(gen_num) ==
    [exists |-> TRUE,
     header |-> IF results_file.exists THEN results_file.header ELSE TRUE,
     rows |-> results_file.rows \o gathered_rows(gen_num)]

\* The comparison off by one, and the comparison that never continues.
should_continue_inclusive(gen_num) == gen_num <= MAX_ITERATIONS
should_continue_never(gen_num) == FALSE

\* Line 106: the decision.
should_continue(gen_num) == gen_num < MAX_ITERATIONS

\* The signal file opened without truncation, as mode 'a' would.
check_continue_touch == [exists |-> TRUE, content |-> signal_file.content]

\* Lines 103-104: the signal file is created or emptied.
check_continue_clear == write(open_w, <<>>)

\* Lines 106-115: rewritten with the token, or left as it is.
check_continue_decide(f, gen_num) ==
    IF should_continue(gen_num) THEN write(open_w, CONTINUE_TOKEN) ELSE f

\* The signal file once check_continue(gen_num) has returned.
check_continue(gen_num) == check_continue_decide(check_continue_clear, gen_num)

SignalContinue == signal_file.exists /\ signal_file.content # <<>>

----------------------------------------------------------------------------
(* The worker: test_chtc/dummy_model.py then calculate_efficiency.py.       *)

\* f.readline(): up to and including the first newline.
RECURSIVE readline(_)
readline(t) == IF t = <<>> THEN <<>>
               ELSE IF Head(t) = "\n" THEN <<"\n">>
               ELSE <<Head(t)>> \o readline(Tail(t))

after_line(t) == SubSeq(t, Len(readline(t)) + 1, Len(t))

\* float(line) of a line that holds an integer literal.
float(t) == int(t).value

\* result = val1 + val2
dummy_model(params) == float(readline(params)) + float(readline(after_line(params)))

\* str(1.0 / (1.0 + model_result)): the text stands for the repr of that
\* quotient, which differs for different denominators.
calculate_efficiency(model_result) == <<"1", "/">> \o str(1 + model_result)

efficiency_text(params) == calculate_efficiency(dummy_model(params))

----------------------------------------------------------------------------
(* Initial state: an empty working directory.                               *)

NoCall == [fn |-> "none", arg |-> 0, result |-> 0, failed |-> FALSE]

NoSamples == [exists |-> FALSE, samples |-> <<>>]
NoDag == [exists |-> FALSE, nodes |-> <<>>]
NoIndicators == [exists |-> FALSE, rows |-> <<>>]
NoJson == [exists |-> FALSE, content |-> <<>>]
NoStep == [mode |-> "off", step |-> "none", METHOD |-> "none",
           sample_array |-> <<>>, samples |-> 0, analyses |-> 0,
           reruns |-> 0, failed |-> FALSE]

\* TxtInOut/calibration.cal: absent, or the one the baseline ships.
NoCalibration == [exists |-> FALSE, content |-> <<>>, origin |-> "none"]
BaselineCalibration == [exists |-> TRUE, content |-> <<>>, origin |-> "baseline"]

NoParamFile == [exists |-> FALSE, lines |-> <<>>]

\* No parameter definition read.
ParseIdle ==
    /\ param_def_file = NoParamFile
    /\ spatial_data_config = <<>>
    /\ param_def = <<>>
    /\ parse_call = "off"

\* The simulation directory of the two-step sweep, empty.
EmptySimDir ==
    /\ workers = <<>>
    /\ fast_sample_file = NoSamples
    /\ morris_sample_file = NoSamples
    /\ sensim_file = NoSamples
    /\ cal_files = <<>>
    /\ worker_jobs_dag = NoDag
    /\ result_dirs = <<>>
    /\ indicator_file = NoIndicators
    /\ json_file = NoJson

SweepIdle ==
    /\ EmptySimDir
    /\ ParseIdle
    /\ tio_dir = [calibration_cal |-> NoCalibration]
    /\ ctrl = NoStep
    /\ sample_array = <<>>
    /\ unique_array = <<>>
    /\ outlet_results = <<>>
    /\ results_map = <<>>
    /\ data_rows = <<>>
    /\ sweep_pc = "off"

EmptyDirectory ==
    /\ state_file = NoFile
    /\ signal_file = NoFile
    /\ results_file = NoTable
    /\ gen_dirs = <<>>
    /\ dag_files = <<>>
    /\ current_symlink = NoLink
    /\ pc = "idle"
    /\ current_gen = 0
    /\ next_gen = 0
    /\ last = [step |-> "none", exit |-> 0]
    /\ invocations = 0
    /\ rounds_done = 0
    /\ signal_fresh = FALSE
    /\ gen_before = 0
    /\ call = NoCall

\* Every configured maximum, every seed.
Init ==
    /\ MAX_ITERATIONS \in 0..MaxConfigured
    /\ entropy \in 1..MaxSeed
    /\ EmptyDirectory
    /\ SweepIdle

----------------------------------------------------------------------------
(* The prepare step: controller.py lines 125-129, prepare.py lines 64-68.   *)

\* The generation advanced by two.
next_generation_skip(gen) == gen + 2

\* Line 127: next_gen = current_gen + 1
next_generation(gen) == gen + 1

PrepareRead ==
    /\ pc = "idle"
    /\ current_gen' = get_current_generation.value
    /\ next_gen' = next_generation(get_current_generation.value)
    /\ gen_before' = PersistedGeneration
    /\ invocations' = invocations + 1
    /\ pc' = "prepare_generation"
    /\ UNCHANGED <<MAX_ITERATIONS, entropy, state_file, signal_file, results_file,
                   gen_dirs, dag_files, current_symlink, last, rounds_done,
                   signal_fresh, call>>
    /\ UNCHANGED sweepVars

PrepareFiles ==
    /\ pc = "prepare_generation"
    /\ prepare_generation_files(next_gen)
    /\ pc' = "symlink_remove"
    /\ UNCHANGED <<MAX_ITERATIONS, entropy, state_file, signal_file, results_file,
                   current_symlink, current_gen, next_gen, last, invocations,
                   rounds_done, signal_fresh, gen_before, call>>
    /\ UNCHANGED sweepVars

\* Lines 60-61: if os.path.lexists(link): os.remove(link)
PrepareRemoveLink ==
    /\ pc = "symlink_remove"
    /\ current_symlink' = IF current_symlink.exists THEN NoLink ELSE current_symlink
    /\ pc' = "symlink_create"
    /\ UNCHANGED <<MAX_ITERATIONS, entropy, state_file, signal_file, results_file,
                   gen_dirs, dag_files, current_gen, next_gen, last, invocations,
                   rounds_done, signal_fresh, gen_before, call>>
    /\ UNCHANGED sweepVars

\* Line 62: os.symlink(worker_dag_file, link)
PrepareSymlink ==
    /\ pc = "symlink_create"
    /\ current_symlink' = os_symlink(next_gen)
    /\ pc' = "update_open"
    /\ UNCHANGED <<MAX_ITERATIONS, entropy, state_file, signal_file, results_file,
                   gen_dirs, dag_files, current_gen, next_gen, last, invocations,
                   rounds_done, signal_fresh, gen_before, call>>
    /\ UNCHANGED sweepVars

\* update_generation, line 29: open(STATE_FILE, 'w') truncates the record.
UpdateOpen ==
    /\ pc = "update_open"
    /\ state_file' = open_w
    /\ pc' = "update_write"
    /\ UNCHANGED <<MAX_ITERATIONS, entropy, signal_file, results_file, gen_dirs,
                   dag_files, current_symlink, current_gen, next_gen, last,
                   invocations, rounds_done, signal_fresh, gen_before, call>>
    /\ UNCHANGED sweepVars

\* update_generation, line 30: the write reaches the file when it is closed.
UpdateWrite ==
    /\ pc = "update_write"
    /\ state_file' = update_generation(next_gen)
    /\ pc' = "idle"
    /\ last' = [step |-> "prepare", exit |-> 0]
    /\ UNCHANGED <<MAX_ITERATIONS, entropy, signal_file, results_file, gen_dirs,
                   dag_files, current_symlink, current_gen, next_gen, invocations,
                   rounds_done, signal_fresh, gen_before, call>>
    /\ UNCHANGED sweepVars

----------------------------------------------------------------------------
(* The check step: controller.py lines 130-136, check.py lines 75-81.       *)

Implementations == {"controller.py", "check.py"}

\* The entry of a check step that leaves the test of the generation to the
\* reader.
check_entry_trusts_reader(impl) ==
    LET r == IF impl = "check.py" THEN check_get_current_generation
             ELSE get_current_generation
    IN  [exit |-> r.exit, value |-> r.value]

\* What the step reads before it collects: the generation, or exit(1).
check_entry(impl) ==
    LET r == IF impl = "check.py" THEN check_get_current_generation
             ELSE get_current_generation
    IN  IF r.exit \/ r.value = 0 THEN [exit |-> TRUE, value |-> r.value]
        ELSE [exit |-> FALSE, value |-> r.value]

CheckRead ==
    /\ pc = "idle"
    /\ \E impl \in Implementations :
         LET r == check_entry(impl)
         IN  /\ current_gen' = r.value
             /\ pc' = IF r.exit THEN "idle" ELSE "gather"
             /\ last' = IF r.exit THEN [step |-> "check", exit |-> 1] ELSE last
    /\ gen_before' = PersistedGeneration
    /\ invocations' = invocations + 1
    /\ signal_fresh' = FALSE
    /\ UNCHANGED <<MAX_ITERATIONS, entropy, state_file, signal_file, results_file,
                   gen_dirs, dag_files, current_symlink, next_gen, rounds_done,
                   call>>
    /\ UNCHANGED sweepVars

CheckGather ==
    /\ pc = "gather"
    /\ results_file' = gather_and_append_results(current_gen)
    /\ pc' = "signal_clear"
    /\ UNCHANGED <<MAX_ITERATIONS, entropy, state_file, signal_file, gen_dirs,
                   dag_files, current_symlink, current_gen, next_gen, last,
                   invocations, rounds_done, signal_fresh, gen_before, call>>
    /\ UNCHANGED sweepVars

\* check_continue, lines 103-104: the file is created empty.
CheckClearSignal ==
    /\ pc = "signal_clear"
    /\ signal_file' = check_continue_clear
    /\ signal_fresh' = TRUE
    /\ pc' = "signal_decide"
    /\ UNCHANGED <<MAX_ITERATIONS, entropy, state_file, results_file, gen_dirs,
                   dag_files, current_symlink, current_gen, next_gen, last,
                   invocations, rounds_done, gen_before, call>>
    /\ UNCHANGED sweepVars

\* check_continue, lines 106-115.
CheckDecide ==
    /\ pc = "signal_decide"
    /\ signal_file' = check_continue_decide(signal_file, current_gen)
    /\ pc' = "idle"
    /\ last' = [step |-> "check", exit |-> 0]
    /\ rounds_done' = rounds_done + 1
    /\ UNCHANGED <<MAX_ITERATIONS, entropy, state_file, results_file, gen_dirs,
                   dag_files, current_symlink, current_gen, next_gen,
                   invocations, signal_fresh, gen_before, call>>
    /\ UNCHANGED sweepVars

----------------------------------------------------------------------------
(* The external run of the current graph: every node's worker either writes *)
(* efficiency.txt into its run directory or fails and writes nothing.       *)

ExternalRun(succeeded) ==
    /\ pc = "idle"
    /\ current_symlink.exists
    /\ current_symlink.target \in DOMAIN dag_files
    /\ LET g == current_symlink.target
       IN  gen_dirs' = [gen_dirs EXCEPT ![g] =
             [i \in Jobs |->
                IF i \in succeeded
                THEN [params |-> gen_dirs[g][i].params,
                      efficiency |->
                        write(open_w, efficiency_text(gen_dirs[g][i].params.content))]
                ELSE gen_dirs[g][i]]]
    /\ last' = [step |-> "run", exit |-> 0]
    /\ UNCHANGED <<MAX_ITERATIONS, entropy, state_file, signal_file, results_file,
                   dag_files, current_symlink, pc, current_gen, next_gen,
                   invocations, rounds_done, signal_fresh, gen_before, call>>
    /\ UNCHANGED sweepVars

----------------------------------------------------------------------------
(* The loop workflow: the scheduler runs prepare, the graph, check, and     *)
(* starts another round only if the signal file is not empty.               *)

NextNode ==
    CASE last.step = "none" -> "prepare"
      [] last.step = "prepare" /\ last.exit = 0 -> "run"
      [] last.step = "run" -> "check"
      [] last.step = "check" /\ last.exit = 0 ->
            IF SignalContinue THEN "prepare" ELSE "done"
      [] OTHER -> "failed"

\* The outcomes of a round's jobs the loop workflow is checked with: all
\* succeed, job 3 alone fails, all fail.
RunOutcomes == {Jobs, Jobs \ {3}, {}}

DagPrepare == NextNode = "prepare" /\ PrepareRead
DagRun == NextNode = "run" /\ \E succeeded \in RunOutcomes : ExternalRun(succeeded)
DagCheck == NextNode = "check" /\ CheckRead

StepBody ==
    \/ PrepareFiles
    \/ PrepareRemoveLink
    \/ PrepareSymlink
    \/ UpdateOpen
    \/ UpdateWrite
    \/ CheckGather
    \/ CheckClearSignal
    \/ CheckDecide

Next == DagPrepare \/ DagRun \/ DagCheck \/ StepBody

Spec == Init /\ [][Next]_vars

\* The loop workflow with every outcome of a round's jobs, under one seed and
\* the maxima up to the shipped one.
DagRunAny == NextNode = "run" /\ \E succeeded \in SUBSET Jobs : ExternalRun(succeeded)

OutcomesInit ==
    /\ MAX_ITERATIONS \in 0..SHIPPED_MAX_ITERATIONS
    /\ entropy = 1
    /\ EmptyDirectory
    /\ SweepIdle

OutcomesNext == DagPrepare \/ DagRunAny \/ DagCheck \/ StepBody

SpecOutcomes == OutcomesInit /\ [][OutcomesNext]_vars

----------------------------------------------------------------------------
(* The steps run by hand, in any order: no scheduler, no external run.      *)

ManualPrepare == invocations < MaxSteps /\ PrepareRead
ManualCheck == invocations < MaxSteps /\ CheckRead

StepsNext == ManualPrepare \/ ManualCheck \/ StepBody

SpecSteps == Init /\ [][StepsNext]_vars

----------------------------------------------------------------------------
(* The same, in a working directory whose state record can be lost or       *)
(* damaged between two steps (removed to restart the workflow, or left      *)
(* unparseable): the state corruption of the error taxonomy.                *)

DamagedRecords ==
    {NoFile, open_w, write(open_w, <<"x">>), write(open_w, <<"0">>),
     write(open_w, <<"-", "1">>), write(open_w, <<" ", "2", "\n">>)}

StateRecordDamaged ==
    /\ pc = "idle"
    /\ invocations < MaxSteps
    /\ \E f \in DamagedRecords : state_file' = f
    /\ invocations' = invocations + 1
    /\ last' = [step |-> "damage", exit |-> 0]
    /\ UNCHANGED <<MAX_ITERATIONS, entropy, signal_file, results_file, gen_dirs,
                   dag_files, current_symlink, pc, current_gen, next_gen,
                   rounds_done, signal_fresh, gen_before, call>>
    /\ UNCHANGED sweepVars

FaultyNext == StepsNext \/ StateRecordDamaged

SpecFaulty == Init /\ [][FaultyNext]_vars

----------------------------------------------------------------------------
(* The functions called one at a time with arguments from bounded sets.     *)

GenArgs == 0..MaxGenArg
Readers == {"get_current_generation", "check_get_current_generation"}

CallUpdateGeneration ==
    /\ pc = "idle"
    /\ \E g \in GenArgs :
         /\ state_file' = update_generation(g)
         /\ call' = [fn |-> "update_generation", arg |-> g, result |-> 0,
                     failed |-> FALSE]
    /\ UNCHANGED <<MAX_ITERATIONS, entropy, signal_file, results_file, gen_dirs,
                   dag_files, current_symlink, pc, current_gen, next_gen, last,
                   invocations, rounds_done, signal_fresh, gen_before>>
    /\ UNCHANGED sweepVars

\* A read after a write; call.arg keeps the value written.
CallGetCurrentGeneration ==
    /\ pc = "idle"
    /\ call.fn # "none"
    /\ call.fn # "check_continue"
    /\ \E reader \in Readers :
         LET r == IF reader = "get_current_generation"
                  THEN get_current_generation ELSE check_get_current_generation
         IN  call' = [fn |-> reader, arg |-> call.arg, result |-> r.value,
                      failed |-> r.exit]
    /\ UNCHANGED <<MAX_ITERATIONS, entropy, state_file, signal_file, results_file,
                   gen_dirs, dag_files, current_symlink, pc, current_gen,
                   next_gen, last, invocations, rounds_done, signal_fresh,
                   gen_before>>
    /\ UNCHANGED sweepVars

CallCheckContinue ==
    /\ pc = "idle"
    /\ \E g \in (0 - MaxGenArg)..MaxGenArg :
         /\ signal_file' = check_continue(g)
         /\ call' = [fn |-> "check_continue", arg |-> g, result |-> 0,
                     failed |-> FALSE]
    /\ UNCHANGED <<MAX_ITERATIONS, entropy, state_file, results_file, gen_dirs,
                   dag_files, current_symlink, pc, current_gen, next_gen, last,
                   invocations, rounds_done, signal_fresh, gen_before>>
    /\ UNCHANGED sweepVars

UnitNext == CallUpdateGeneration \/ CallGetCurrentGeneration \/ CallCheckContinue

SpecUnit == Init /\ [][UnitNext]_vars

----------------------------------------------------------------------------
(* Sweep mode with duplicate broadcast:                                     *)
(* sensitivity/sensitivity_analysis_onestep.py.                             *)

\* The sample vectors the strategy may return and the indicator records a
\* model run may write, as small sets.
SampleVectors == {<<0, 0>>, <<0, 1>>, <<1, 0>>}
IndicatorRecords == {[NSE |-> 0, PBIAS |-> 0], [NSE |-> 1, PBIAS |-> 0],
                     [NSE |-> 0, PBIAS |-> 1]}

RECURSIVE RowLess(_, _)
RowLess(a, b) == IF a = <<>> \/ b = <<>> THEN a = <<>> /\ b # <<>>
                 ELSE IF Head(a) = Head(b) THEN RowLess(Tail(a), Tail(b))
                 ELSE Head(a) < Head(b)

RECURSIVE SortRows(_)
SortRows(S) == IF S = {} THEN <<>>
               ELSE LET m == CHOOSE r \in S : \A o \in S \ {r} : RowLess(r, o)
                    IN  <<m>> \o SortRows(S \ {m})

\* numpy.unique(ar, axis=0): the distinct rows, sorted.
numpy_unique(ar) == SortRows({ar[k] : k \in 1..Len(ar)})

\* Lines 394-400: the loop leaves under each key the result read last for it.
build_results_map ==
    [key \in {unique_array[k] : k \in 1..Len(unique_array)} |->
       LET idx == CHOOSE k \in 1..Len(unique_array) :
                    /\ unique_array[k] = key
                    /\ \A m \in 1..Len(unique_array) :
                         unique_array[m] = key => m <= k
       IN  outlet_results[idx]]

\* The row filled from the result at its own position, without the map.
broadcast_row_by_position(k) ==
    [Scenario |-> k,
     indicators |-> outlet_results[((k - 1) % Len(unique_array)) + 1]]

\* Lines 401-405: one row of the table, results_map[sample_key].copy().
broadcast_row(k) == [Scenario |-> k, indicators |-> results_map[sample_array[k]]]

SweepInit ==
    /\ MAX_ITERATIONS = SHIPPED_MAX_ITERATIONS
    /\ entropy = 1
    /\ EmptyDirectory
    /\ EmptySimDir
    /\ ParseIdle
    /\ tio_dir = [calibration_cal |-> NoCalibration]
    /\ ctrl = NoStep
    /\ sample_array \in [1..SweepRows -> SampleVectors]
    /\ unique_array = <<>>
    /\ outlet_results = <<>>
    /\ results_map = <<>>
    /\ data_rows = <<>>
    /\ sweep_pc = "sampled"

\* Lines 188-197.
SweepUnique ==
    /\ sweep_pc = "sampled"
    /\ unique_array' = numpy_unique(sample_array)
    /\ sweep_pc' = "submitted"
    /\ UNCHANGED <<sample_array, outlet_results, results_map, data_rows>>
    /\ UNCHANGED ctrlVars
    /\ UNCHANGED parseVars
    /\ UNCHANGED loopVars

\* The model runs, one per unique vector, write their indicator records.
SweepRun ==
    /\ sweep_pc = "submitted"
    /\ outlet_results' \in [1..Len(unique_array) -> IndicatorRecords]
    /\ sweep_pc' = "finished"
    /\ UNCHANGED <<sample_array, unique_array, results_map, data_rows>>
    /\ UNCHANGED ctrlVars
    /\ UNCHANGED parseVars
    /\ UNCHANGED loopVars

SweepCollect ==
    /\ sweep_pc = "finished"
    /\ results_map' = build_results_map
    /\ sweep_pc' = "mapped"
    /\ UNCHANGED <<sample_array, unique_array, outlet_results, data_rows>>
    /\ UNCHANGED ctrlVars
    /\ UNCHANGED parseVars
    /\ UNCHANGED loopVars

SweepBroadcast ==
    /\ sweep_pc = "mapped"
    /\ data_rows' = [k \in 1..Len(sample_array) |-> broadcast_row(k)]
    /\ sweep_pc' = "done"
    /\ UNCHANGED <<sample_array, unique_array, outlet_results, results_map>>
    /\ UNCHANGED ctrlVars
    /\ UNCHANGED parseVars
    /\ UNCHANGED loopVars

SweepNext == SweepUnique \/ SweepRun \/ SweepCollect \/ SweepBroadcast

SpecSweep == SweepInit /\ [][SweepNext]_vars

----------------------------------------------------------------------------
(* Sweep mode in two steps: sensitivity/ctrl_sensitivity_sample.py writes   *)
(* the samples, the calibration files and the job graph; the scheduler runs *)
(* sensitivity/worker_runmodel.py once per node; ctrl_sensitivity_analyze.py*)
(* collects the results and computes the indices.                           *)

Methods == {"FAST", "Morris"}

\* The matrices fast_sampler.sample and morris.sample may return: rows may
\* repeat.
CtrlVectors == {<<0, 0>>, <<0, 1>>}
CtrlMatrices == [1..CtrlRows -> CtrlVectors]

\* numpy.savez_compressed(sample_out_file, samples=sample_array)
savez_compressed(matrix) == [exists |-> TRUE, samples |-> matrix]

\* Lines 288-314: sim_<idx>.cal for every row; files of a longer earlier sweep
\* stay.
write_calibration_files(matrix) ==
    [i \in DOMAIN cal_files \cup (1..Len(matrix)) |->
       IF i <= Len(matrix) THEN matrix[i] ELSE cal_files[i]]

\* Line 310: txtinout_reader._write_calibration_file(parameters=params) writes
\* calibration.cal into tio_dir, over the one that may be there.
write_calibration_file(dir, row) ==
    [dir EXCEPT !.calibration_cal =
                  [exists |-> TRUE, content |-> row, origin |-> "sample"]]

\* Line 314: shutil.move(tio_dir / 'calibration.cal', sim_dir / f'sim_{idx}.cal')
\* takes the file out of tio_dir.
shutil_move(dir) == [dir EXCEPT !.calibration_cal = NoCalibration]

\* Lines 288-314: tio_dir after the loop over the rows.
RECURSIVE materialize(_, _)
materialize(dir, rows) ==
    IF rows = <<>> THEN dir
    ELSE materialize(shutil_move(write_calibration_file(dir, Head(rows))),
                     Tail(rows))

\* Every node bound to the files of the first job.
sweep_dag_node_first(i) ==
    [node_name |-> i, ParamFile |-> <<"sim", 1>>,
     ResultDir |-> <<"OutletsResults", 1>>,
     keywords |-> <<"JOB", "VARS", "VARS">>]

\* Lines 321-323: JOB run_<i>, VARS ParamFile, VARS ResultDir.
sweep_dag_node(i) ==
    [node_name |-> i, ParamFile |-> <<"sim", i>>,
     ResultDir |-> <<"OutletsResults", i>>,
     keywords |-> <<"JOB", "VARS", "VARS">>]

\* Lines 318-324: one node per i in 1..num_sim.
sweep_dag_text(num_sim) ==
    [exists |-> TRUE, nodes |-> [i \in 1..num_sim |-> sweep_dag_node(i)]]

\* ctrl_sensitivity_sample.py run with METHOD set; the sampler returns matrix.
CtrlSample ==
    /\ ctrl.mode = "on"
    /\ ctrl.samples < MaxSampleSteps
    /\ \E METHOD \in Methods, matrix \in CtrlMatrices :
         LET num_sim == Len(matrix)
         IN  /\ fast_sample_file' = IF METHOD = "FAST" THEN savez_compressed(matrix)
                                    ELSE fast_sample_file
             /\ morris_sample_file' = IF METHOD = "Morris" THEN savez_compressed(matrix)
                                      ELSE morris_sample_file
             /\ sensim_file' = [exists |-> TRUE, samples |-> matrix]
             /\ cal_files' = write_calibration_files(matrix)
             /\ tio_dir' = materialize(tio_dir, matrix)
             /\ worker_jobs_dag' = sweep_dag_text(num_sim)
             /\ ctrl' = [ctrl EXCEPT !.step = "sample", !.METHOD = METHOD,
                                     !.sample_array = matrix,
                                     !.samples = @ + 1, !.failed = FALSE]
    /\ UNCHANGED <<result_dirs, indicator_file, json_file, workers>>
    /\ UNCHANGED <<sample_array, unique_array, outlet_results, results_map,
                   data_rows, sweep_pc>>
    /\ UNCHANGED parseVars
    /\ UNCHANGED loopVars

NoResultDir == [exists |-> FALSE, performance |-> [exists |-> FALSE]]

ResultDirOf(i) == IF i \in DOMAIN result_dirs THEN result_dirs[i] ELSE NoResultDir

\* The indicators the engine yields for a calibration file: a function of the
\* sampled values.
evaluate_performance(cal) == [NSE |-> 2 * cal[1] + cal[2], PBIAS |-> cal[2]]

\* worker_runmodel.py <ParamFile> <ResultDir>: makes the result directory and
\* writes model_performance.json into it.
worker_runmodel(node) ==
    [exists |-> TRUE,
     performance |-> [exists |-> TRUE,
                      indicators |-> evaluate_performance(cal_files[node.node_name]),
                      run_of |-> ctrl.METHOD]]

\* worker_runmodel.py lines 147-151: calibration.cal of tio_dir is removed if
\* it is there, and the worker's file is moved to that place.
worker_move(cal) ==
    [calibration_cal |-> [exists |-> TRUE, content |-> cal, origin |-> "worker"]]

\* The scheduler runs the submitted graph, one worker after the other; the
\* workers of the nodes in succeeded finish, the others leave the files as
\* they were.  The calibration file of a finished worker is gone from the
\* simulation directory; that of the worker that ran last is in tio_dir.
CtrlRun ==
    /\ ctrl.mode = "on"
    /\ ctrl.step = "sample"
    /\ worker_jobs_dag.exists
    /\ workers = <<>>
    /\ \E succeeded \in SUBSET (1..Len(worker_jobs_dag.nodes)) :
         /\ result_dirs' =
              [i \in DOMAIN result_dirs \cup succeeded |->
                 IF i \in succeeded THEN worker_runmodel(worker_jobs_dag.nodes[i])
                 ELSE result_dirs[i]]
         /\ cal_files' = [i \in DOMAIN cal_files \ succeeded |-> cal_files[i]]
         /\ tio_dir' \in IF succeeded = {} THEN {tio_dir}
                         ELSE {worker_move(cal_files[j]) : j \in succeeded}
    /\ ctrl' = [ctrl EXCEPT !.step = "run", !.failed = FALSE]
    /\ UNCHANGED <<fast_sample_file, morris_sample_file, sensim_file,
                   worker_jobs_dag, indicator_file, json_file, workers>>
    /\ UNCHANGED <<sample_array, unique_array, outlet_results, results_map,
                   data_rows, sweep_pc>>
    /\ UNCHANGED parseVars
    /\ UNCHANGED loopVars

\* Lines 215-231: the method is the one whose sample file exists, FAST first.
detect_method ==
    IF fast_sample_file.exists
    THEN [found |-> TRUE, METHOD |-> "FAST", sample_out_file |-> fast_sample_file]
    ELSE IF morris_sample_file.exists
    THEN [found |-> TRUE, METHOD |-> "Morris", sample_out_file |-> morris_sample_file]
    ELSE [found |-> FALSE, METHOD |-> "none", sample_out_file |-> NoSamples]

\* Lines 245-257: a row for every index whose result file exists, in order.
RECURSIVE collect_rows(_, _)
collect_rows(idx, num_sim) ==
    IF idx > num_sim THEN <<>>
    ELSE IF ~ResultDirOf(idx).performance.exists
    THEN collect_rows(idx + 1, num_sim)
    ELSE <<[sim_index |-> idx,
            indicators |-> ResultDirOf(idx).performance.indicators]>>
         \o collect_rows(idx + 1, num_sim)

\* The rows written behind those the file already holds, as mode 'a' would.
to_csv_append(rows) == [exists |-> TRUE, rows |-> indicator_file.rows \o rows]

\* Line 263: indicator_df.to_csv(indicator_file) writes the file anew.
to_csv(rows) == [exists |-> TRUE, rows |-> rows]

model_outputs_Y(rows) == [k \in 1..Len(rows) |-> rows[k].indicators]

\* Lines 277-325: fast.analyze(problem, Y, M) or morris.analyze(problem, X, Y,
\* conf_level=0.95).  The indices are a function of the estimator and of what
\* it is given; the confidence bounds come from a resampling that the script
\* does not seed, so that they are one draw of several.
sensitivity_indices(METHOD, X, Y, draw) ==
    [estimator |-> METHOD,
     X |-> IF METHOD = "Morris" THEN X ELSE <<>>,
     Y |-> Y,
     conf |-> draw]

\* Lines 334-335: open(json_file, 'w'), json.dump.
json_dump(indices) == [exists |-> TRUE, content |-> indices]

\* ctrl_sensitivity_analyze.py.
CtrlAnalyze ==
    /\ ctrl.mode = "on"
    /\ ctrl.analyses < MaxAnalyses
    /\ LET detected == detect_method
           loaded_sample_array == detected.sample_out_file.samples
           num_sim == Len(loaded_sample_array)
           rows == collect_rows(1, num_sim)
           \* history: analyses that directly follow an analysis
           rerun == IF ctrl.step = "analyze" THEN ctrl.reruns + 1 ELSE ctrl.reruns
       IN  IF ~detected.found \/ ~sensim_file.exists \/ rows = <<>>
           THEN \* FileNotFoundError at line 228 or 235, KeyError at line 260
                /\ ctrl' = [ctrl EXCEPT !.step = "analyze", !.analyses = @ + 1,
                                        !.reruns = rerun, !.failed = TRUE]
                /\ UNCHANGED <<indicator_file, json_file>>
           ELSE /\ indicator_file' = to_csv(rows)
                /\ \E draw \in 1..ConfDraws :
                     json_file' = json_dump(sensitivity_indices(
                                    detected.METHOD, loaded_sample_array,
                                    model_outputs_Y(rows), draw))
                /\ ctrl' = [ctrl EXCEPT !.step = "analyze", !.analyses = @ + 1,
                                        !.reruns = rerun, !.failed = FALSE]
    /\ UNCHANGED <<fast_sample_file, morris_sample_file, sensim_file, cal_files,
                   worker_jobs_dag, result_dirs, tio_dir, workers>>
    /\ UNCHANGED <<sample_array, unique_array, outlet_results, results_map,
                   data_rows, sweep_pc>>
    /\ UNCHANGED parseVars
    /\ UNCHANGED loopVars

CtrlInit ==
    /\ MAX_ITERATIONS = SHIPPED_MAX_ITERATIONS
    /\ entropy = 1
    /\ EmptyDirectory
    /\ EmptySimDir
    /\ ParseIdle
    /\ tio_dir \in {[calibration_cal |-> NoCalibration],
                    [calibration_cal |-> BaselineCalibration]}
    /\ ctrl = [NoStep EXCEPT !.mode = "on"]
    /\ sample_array = <<>>
    /\ unique_array = <<>>
    /\ outlet_results = <<>>
    /\ results_map = <<>>
    /\ data_rows = <<>>
    /\ sweep_pc = "off"

CtrlNext == CtrlSample \/ CtrlRun \/ CtrlAnalyze

SpecCtrl == CtrlInit /\ [][CtrlNext]_vars

----------------------------------------------------------------------------
(* The workers of a sweep side by side: the scheduler starts the nodes of   *)
(* worker_jobs.dag in any order and lets them run at the same time.  A      *)
(* worker is worker_runmodel.py <ParamFile> <ResultDir>; tio_dir is the     *)
(* same path script_dir/../TxtInOut for every worker (line 67).             *)

Queued == [pc |-> "queued", touched |-> {}]

WorkerOf(i) == IF i \in DOMAIN workers THEN workers[i] ELSE Queued

\* Line 148: cal_file_act = tio_dir / 'calibration.cal'
cal_file_act == <<"TxtInOut", 0>>

\* Lines 126 and 147-151: the result directory is made, calibration.cal of
\* tio_dir is replaced by the worker's own calibration file.
WorkerMove(i) ==
    /\ ctrl.mode = "on"
    /\ ctrl.step \in {"sample", "run"}
    /\ worker_jobs_dag.exists
    /\ i \in 1..Len(worker_jobs_dag.nodes)
    /\ WorkerOf(i).pc = "queued"
    /\ LET node == worker_jobs_dag.nodes[i]
           cal_file == node.ParamFile[2]
       IN  /\ cal_file \in DOMAIN cal_files
           /\ tio_dir' = worker_move(cal_files[cal_file])
           /\ cal_files' = [k \in DOMAIN cal_files \ {cal_file} |-> cal_files[k]]
           /\ result_dirs' =
                [k \in DOMAIN result_dirs \cup {node.ResultDir[2]} |->
                   IF k = node.ResultDir[2]
                   THEN [ResultDirOf(k) EXCEPT !.exists = TRUE]
                   ELSE result_dirs[k]]
           /\ workers' =
                [k \in DOMAIN workers \cup {i} |->
                   IF k = i
                   THEN [pc |-> "moved",
                         touched |-> {node.ParamFile, node.ResultDir,
                                      cal_file_act}]
                   ELSE workers[k]]
    /\ ctrl' = [ctrl EXCEPT !.step = "run", !.failed = FALSE]
    /\ UNCHANGED <<fast_sample_file, morris_sample_file, sensim_file,
                   worker_jobs_dag, indicator_file, json_file>>
    /\ UNCHANGED <<sample_array, unique_array, outlet_results, results_map,
                   data_rows, sweep_pc>>
    /\ UNCHANGED parseVars
    /\ UNCHANGED loopVars

\* Lines 154-189: the engine runs in tio_dir with the calibration.cal that is
\* there now; the indicators go to the worker's result directory.
WorkerRun(i) ==
    /\ ctrl.mode = "on"
    /\ WorkerOf(i).pc = "moved"
    /\ tio_dir.calibration_cal.exists
    /\ LET node == worker_jobs_dag.nodes[i]
       IN  result_dirs' =
             [result_dirs EXCEPT ![node.ResultDir[2]] =
                [exists |-> TRUE,
                 performance |->
                   [exists |-> TRUE,
                    indicators |->
                      evaluate_performance(tio_dir.calibration_cal.content),
                    run_of |-> ctrl.METHOD]]]
    /\ workers' = [workers EXCEPT ![i].pc = "done"]
    /\ UNCHANGED <<fast_sample_file, morris_sample_file, sensim_file, cal_files,
                   worker_jobs_dag, indicator_file, json_file, ctrl, tio_dir>>
    /\ UNCHANGED <<sample_array, unique_array, outlet_results, results_map,
                   data_rows, sweep_pc>>
    /\ UNCHANGED parseVars
    /\ UNCHANGED loopVars

\* The sample step, before any node of its graph has started.
SubmitSample == workers = <<>> /\ CtrlSample

WorkersNext ==
    \/ SubmitSample
    \/ \E i \in 1..CtrlRows : WorkerMove(i)
    \/ \E i \in 1..CtrlRows : WorkerRun(i)

SpecWorkers == CtrlInit /\ [][WorkersNext]_vars

----------------------------------------------------------------------------
(* The split twin of the controller, prepare.py and check.py, beside        *)
(* controller.py --step prepare and --step check_continue: what one run of  *)
(* a step leaves behind when started in the present state.                  *)

\* prepare.py lines 12-20.
prepare_get_current_generation ==
    IF state_file.exists
    THEN IF int(state_file.content).ok
         THEN [exit |-> FALSE, value |-> int(state_file.content).value]
         ELSE [exit |-> FALSE, value |-> 0]
    ELSE [exit |-> FALSE, value |-> 0]

\* prepare.py lines 50-54: JOB, VARS NodeArgs, ParamFile, RunDir, GenNum.
prepare_dag_node(g, i) ==
    [node_name |-> i, NodeArgs |-> i, ParamFile |-> <<g, i, "params.txt">>,
     RunDir |-> <<g, i>>, GenNum |-> g,
     keywords |-> <<"JOB", "VARS", "VARS", "VARS", "VARS">>]

PrepareScripts == {"controller.py", "prepare.py"}

\* The prepare step of script: the state record, the run directories and the
\* parameter files it makes, the name of its graph file, the pointer.
prepare_step(script) ==
    LET current == IF script = "prepare.py" THEN prepare_get_current_generation
                   ELSE get_current_generation
        gen_num == next_generation(current.value)
        node(i) == IF script = "prepare.py" THEN prepare_dag_node(gen_num, i)
                   ELSE dag_node(gen_num, i)
    IN  [exit |-> 0,
         state_file |-> update_generation(gen_num),
         run_dirs |-> {node(i).RunDir : i \in Jobs},
         param_files |-> {node(i).ParamFile : i \in Jobs},
         worker_dag_file |-> gen_num,
         current_symlink |-> os_symlink(gen_num)]

\* The check step of script: exit(1) with nothing collected, or the table
\* and the signal file it leaves.
check_step(script) ==
    LET r == check_entry(script)
    IN  IF r.exit
        THEN [exit |-> 1, results_file |-> results_file,
              signal_file |-> signal_file]
        ELSE [exit |-> 0, results_file |-> gather_and_append_results(r.value),
              signal_file |-> check_continue(r.value)]

\* Both scripts of a step started in the same state.
CallPrepareTwins ==
    /\ pc = "idle"
    /\ call = NoCall
    /\ call' = [fn |-> "prepare", arg |-> 0,
                result |-> <<prepare_step("controller.py"),
                             prepare_step("prepare.py")>>,
                failed |-> FALSE]
    /\ UNCHANGED <<MAX_ITERATIONS, entropy, state_file, signal_file, results_file,
                   gen_dirs, dag_files, current_symlink, pc, current_gen,
                   next_gen, last, invocations, rounds_done, signal_fresh,
                   gen_before>>
    /\ UNCHANGED sweepVars

CallCheckTwins ==
    /\ pc = "idle"
    /\ call = NoCall
    /\ call' = [fn |-> "check_continue", arg |-> 0,
                result |-> <<check_step("controller.py"),
                             check_step("check.py")>>,
                failed |-> FALSE]
    /\ UNCHANGED <<MAX_ITERATIONS, entropy, state_file, signal_file, results_file,
                   gen_dirs, dag_files, current_symlink, pc, current_gen,
                   next_gen, last, invocations, rounds_done, signal_fresh,
                   gen_before>>
    /\ UNCHANGED sweepVars

TwinsNext == (call = NoCall /\ FaultyNext) \/ CallPrepareTwins \/ CallCheckTwins

SpecTwins == Init /\ [][TwinsNext]_vars

----------------------------------------------------------------------------
(* The problem definition: parse_parameter_file of                          *)
(* sensitivity/ctrl_sensitivity_sample.py and of                            *)
(* sensitivity/sensitivity_analysis_onestep.py.  A line of the file is a    *)
(* sequence of characters.                                                  *)

\* Lines per parameter definition file.
MaxLines == 3

\* text.split(sep) for a separator of one character.
RECURSIVE split(_, _)
split(t, sep) ==
    IF \A k \in 1..Len(t) : t[k] # sep THEN <<t>>
    ELSE LET k == CHOOSE i \in 1..Len(t) :
                    t[i] = sep /\ \A m \in 1..(i - 1) : t[m] # sep
         IN  <<SubSeq(t, 1, k - 1)>> \o split(SubSeq(t, k + 1, Len(t)), sep)

\* text.startswith(c)
startswith(t, c) == t # <<>> /\ Head(t) = c

RECURSIVE rstrip_zeros(_)
rstrip_zeros(t) == IF t # <<>> /\ t[Len(t)] = "0"
                   THEN rstrip_zeros(SubSeq(t, 1, Len(t) - 1)) ELSE t

NoNumber == [neg |-> FALSE, whole |-> 0, frac |-> <<>>]

\* float(text) of a decimal literal: an optional sign, digits and at most one
\* point, at least one digit, between optional whitespace; anything else
\* raises ValueError (ok = FALSE).  The value is the sign, the whole part and
\* the fraction digits without trailing zeros, so that 2.5 and 2.50 are equal.
float_literal(t) ==
    LET s == strip(t)
        signed == s # <<>> /\ Head(s) \in {"-", "+"}
        body == IF signed THEN Tail(s) ELSE s
        parts == split(body, ".")
        whole == parts[1]
        frac == IF Len(parts) = 2 THEN parts[2] ELSE <<>>
    IN  IF Len(parts) <= 2 /\ AllDigits(whole \o frac)
        THEN [ok |-> TRUE,
              value |-> [neg |-> signed /\ Head(s) = "-"
                                   /\ DigitsVal(whole \o frac) # 0,
                         whole |-> DigitsVal(whole),
                         frac |-> rstrip_zeros(frac)]]
        ELSE [ok |-> FALSE, value |-> NoNumber]

\* Only the empty line is passed over.
ignored_blank_only(line) == line = <<>>

\* Lines 59-60 (onestep: line 45): if not line or line.startswith('#')
ignored(line) == line = <<>> \/ startswith(line, "#")

\* The object types, the group names and the id fields of the spatial data.
HRU == <<"h", "r", "u">>
RTE == <<"r", "t", "e">>
LSU == <<"l", "s", "u">>
HRU_IDS == <<"h", "r", "u", "_", "i", "d", "s">>
CHANNEL_IDS == <<"c", "h", "a", "n", "n", "e", "l", "_", "i", "d", "s">>
GROUP == <<"g">>

\* Lines 48-51.
id_field_map == (HRU :> HRU_IDS) @@ (RTE :> CHANNEL_IDS)

\* units of a parameter: None, or the id list of its scope.
None == [none |-> TRUE, ids |-> <<>>]

\* An unresolved scope leaves the parameter global.
lookup_units_keep_global(object_type, group_name, spatial_group_data) ==
    IF /\ object_type \in DOMAIN spatial_group_data
       /\ group_name \in DOMAIN spatial_group_data[object_type]
       /\ object_type \in DOMAIN id_field_map
       /\ id_field_map[object_type]
            \in DOMAIN spatial_group_data[object_type][group_name]
    THEN [found |-> TRUE,
          units |-> [none |-> FALSE,
                     ids |-> spatial_group_data[object_type][group_name]
                                               [id_field_map[object_type]]]]
    ELSE [found |-> TRUE, units |-> None]

\* Lines 92-125: the four checks, each ending the line with continue, then
\* param_dict['units'] = group_data[id_field].
lookup_units(object_type, group_name, spatial_group_data) ==
    IF object_type \notin DOMAIN spatial_group_data
    THEN [found |-> FALSE, units |-> None]
    ELSE IF group_name \notin DOMAIN spatial_group_data[object_type]
    THEN [found |-> FALSE, units |-> None]
    ELSE IF object_type \notin DOMAIN id_field_map
    THEN [found |-> FALSE, units |-> None]
    ELSE IF id_field_map[object_type]
              \notin DOMAIN spatial_group_data[object_type][group_name]
    THEN [found |-> FALSE, units |-> None]
    ELSE [found |-> TRUE,
          units |-> [none |-> FALSE,
                     ids |-> spatial_group_data[object_type][group_name]
                                               [id_field_map[object_type]]]]

Skipped == [append |-> FALSE, param_dict |-> <<>>]

\* ctrl_sensitivity_sample.py lines 57-141: the body of the loop for one line.
parse_line(raw_line, spatial_group_data) ==
    LET line == strip(raw_line)
        parts == split(line, ",")
    IN  IF ignored(line) THEN Skipped
        ELSE IF Len(parts) # 4 THEN Skipped
        ELSE IF ~float_literal(parts[3]).ok \/ ~float_literal(parts[4]).ok
        THEN Skipped    \* ValueError, lines 138-139
        ELSE
          LET raw_name == strip(parts[1])
              name_parts == split(raw_name, "|")
              scope == lookup_units(strip(name_parts[2]), strip(name_parts[3]),
                                    spatial_group_data)
              param_dict(name, units) ==
                  [name |-> name,
                   change_type |-> strip(parts[2]),
                   lower_bound |-> float_literal(parts[3]).value,
                   upper_bound |-> float_literal(parts[4]).value,
                   units |-> units]
          IN  IF \E k \in 1..Len(raw_name) : raw_name[k] = "|"
              THEN IF Len(name_parts) # 3 THEN Skipped
                   ELSE IF ~scope.found THEN Skipped
                   ELSE [append |-> TRUE,
                         param_dict |-> param_dict(strip(name_parts[1]),
                                                   scope.units)]
              ELSE [append |-> TRUE, param_dict |-> param_dict(raw_name, None)]

RECURSIVE parse_lines(_, _)
parse_lines(lines, spatial_group_data) ==
    IF lines = <<>> THEN <<>>
    ELSE LET r == parse_line(Head(lines), spatial_group_data)
         IN  (IF r.append THEN <<r.param_dict>> ELSE <<>>)
             \o parse_lines(Tail(lines), spatial_group_data)

\* ctrl_sensitivity_sample.py lines 15-150; a file that is not there gives [].
parse_parameter_file(filepath, spatial_group_data) ==
    IF ~filepath.exists THEN <<>>
    ELSE parse_lines(filepath.lines, spatial_group_data)

\* sensitivity_analysis_onestep.py lines 43-70: the body of the loop.
onestep_parse_line(raw_line) ==
    LET line == strip(raw_line)
        parts == split(line, ",")
    IN  IF ignored(line) THEN Skipped
        ELSE IF Len(parts) # 4 THEN Skipped
        ELSE IF ~float_literal(parts[3]).ok \/ ~float_literal(parts[4]).ok
        THEN Skipped    \* ValueError, lines 65-67
        ELSE [append |-> TRUE,
              param_dict |-> [name |-> strip(parts[1]),
                              change_type |-> strip(parts[2]),
                              lower_bound |-> float_literal(parts[3]).value,
                              upper_bound |-> float_literal(parts[4]).value]]

RECURSIVE onestep_parse_lines(_)
onestep_parse_lines(lines) ==
    IF lines = <<>> THEN <<>>
    ELSE LET r == onestep_parse_line(Head(lines))
         IN  (IF r.append THEN <<r.param_dict>> ELSE <<>>)
             \o onestep_parse_lines(Tail(lines))

\* sensitivity_analysis_onestep.py lines 21-79.
onestep_parse_parameter_file(filepath) ==
    IF ~filepath.exists THEN <<>> ELSE onestep_parse_lines(filepath.lines)

\* The lines a definition file may hold.
Fields == <<",", "p", ",", "1", ",", "2">>
LineSet ==
    { <<"a">> \o Fields,                                   \* a,p,1,2
      <<" ", "b", " ", ",", " ", "p", ",", " ", "-", "1", ",",
        "2", ".", "5", "0", "\n">>,                        \* b , p, -1,2.50
      <<" ", "\n">>,                                       \* blank
      <<"#", "a">> \o Fields,                              \* #a,p,1,2
      <<"a", ",", "p", ",", "1">>,                         \* a,p,1
      <<"a", ",", "p", ",", "x", ",", "2">>,               \* a,p,x,2
      <<"a", "|">> \o HRU \o <<"|">> \o GROUP \o Fields,   \* a|hru|g,p,1,2
      <<"b", "|">> \o RTE \o <<"|">> \o GROUP \o Fields,   \* b|rte|g,p,1,2
      <<"a", "|">> \o HRU \o <<"|", "z">> \o Fields,       \* a|hru|z,p,1,2
      <<"a", "|">> \o HRU \o Fields,                       \* a|hru,p,1,2
      <<"a", "|">> \o LSU \o <<"|">> \o GROUP \o Fields }  \* a|lsu|g,p,1,2

ParamFiles ==
    {NoParamFile} \cup
    {[exists |-> TRUE, lines |-> ls] :
       ls \in UNION {[1..n -> LineSet] : n \in 0..MaxLines}}

\* The spatial group data: none loaded, hru groups, an hru group without its
\* id field, channel groups, and groups of a type id_field_map does not know.
GroupData ==
    { <<>>,
      (HRU :> (GROUP :> (HRU_IDS :> <<1, 2>>))),
      (HRU :> (GROUP :> (CHANNEL_IDS :> <<1, 2>>))),
      (RTE :> (GROUP :> (CHANNEL_IDS :> <<10>>))),
      (LSU :> (GROUP :> (HRU_IDS :> <<1>>))) }

Parsers == {"ctrl_sensitivity_sample.py", "sensitivity_analysis_onestep.py"}

ParseInit ==
    /\ MAX_ITERATIONS = SHIPPED_MAX_ITERATIONS
    /\ entropy = 1
    /\ EmptyDirectory
    /\ EmptySimDir
    /\ tio_dir = [calibration_cal |-> NoCalibration]
    /\ ctrl = NoStep
    /\ sample_array = <<>>
    /\ unique_array = <<>>
    /\ outlet_results = <<>>
    /\ results_map = <<>>
    /\ data_rows = <<>>
    /\ sweep_pc = "off"
    /\ param_def_file \in ParamFiles
    /\ spatial_data_config \in GroupData
    /\ param_def = <<>>
    /\ parse_call = "ready"

\* ctrl_sensitivity_sample.py line 208:
\* param_def = parse_parameter_file(param_def_file, spatial_data_config)
CallParse ==
    /\ parse_call = "ready"
    /\ param_def' = parse_parameter_file(param_def_file, spatial_data_config)
    /\ parse_call' = "ctrl_sensitivity_sample.py"
    /\ UNCHANGED <<param_def_file, spatial_data_config>>
    /\ UNCHANGED <<sample_array, unique_array, outlet_results, results_map,
                   data_rows, sweep_pc, ctrlVars>>
    /\ UNCHANGED loopVars

\* sensitivity_analysis_onestep.py: param_def = parse_parameter_file(param_def_file)
CallParseOnestep ==
    /\ parse_call = "ready"
    /\ param_def' = onestep_parse_parameter_file(param_def_file)
    /\ parse_call' = "sensitivity_analysis_onestep.py"
    /\ UNCHANGED <<param_def_file, spatial_data_config>>
    /\ UNCHANGED <<sample_array, unique_array, outlet_results, results_map,
                   data_rows, sweep_pc, ctrlVars>>
    /\ UNCHANGED loopVars

ParseNext == CallParse \/ CallParseOnestep

SpecParse == ParseInit /\ [][ParseNext]_vars

----------------------------------------------------------------------------
(* The two emitters of job graphs side by side: a working directory is used *)
(* by the loop workflow, its steps run by hand, or by the two-step sweep.   *)

EmitInit == Init \/ CtrlInit

EmitNext == (ctrl.mode = "off" /\ StepsNext) \/ CtrlSample \/ CtrlRun

SpecEmit == EmitInit /\ [][EmitNext]_vars

----------------------------------------------------------------------------
(* The loop workflow under fair scheduling: a started step runs to its end, *)
(* the jobs of a submitted graph finish, the scheduler starts the next node.*)

FairSpec == Init /\ [][Next]_vars /\ WF_vars(Next)

----------------------------------------------------------------------------
(* Properties.                                                              *)

\* C1: check_continue(g) leaves the signal file holding the token 'continue'
\* if and only if g < MAX_ITERATIONS and leaves it empty otherwise, for every
\* generation g and every configured maximum.
C1_DecideIffBelowMax ==
    call.fn = "check_continue" =>
        /\ signal_file.exists
        /\ signal_file.content =
             IF call.arg < MAX_ITERATIONS THEN CONTINUE_TOKEN ELSE <<>>

\* Scenario A, last call: maximum 3 and generation 3 yield stop.
C1_Witness ==
    /\ MAX_ITERATIONS = 3
    /\ call.fn = "check_continue"
    /\ call.arg = 3
    /\ signal_file.exists
    /\ signal_file.content = <<>>

TableRows == results_file.rows

\* C2: between steps, after k complete rounds from an empty directory, the
\* results table holds exactly k * NUM_JOBS_PER_ITER data rows and no two of
\* them carry the same (generation, run_id).
C2_RowsPerRound ==
    pc = "idle" =>
        /\ Len(TableRows) = rounds_done * NUM_JOBS_PER_ITER
        /\ \A a, b \in 1..Len(TableRows) :
             a # b => <<TableRows[a].generation, TableRows[a].run_id>> #
                      <<TableRows[b].generation, TableRows[b].run_id>>

\* Scenario D: 3 rounds of 5 jobs, 15 rows.
C2_Witness ==
    /\ pc = "idle"
    /\ rounds_done = 3
    /\ results_file.exists
    /\ Len(TableRows) = 15

MissingJobs(g) == {i \in Jobs : ~RunDirOf(g, i).efficiency.exists}

C3_GatherStep ==
    (pc = "gather" /\ pc' # "gather") =>
        /\ pc' = "signal_clear"
        /\ Len(results_file'.rows) = Len(TableRows) + NUM_JOBS_PER_ITER
        /\ SubSeq(results_file'.rows, 1, Len(TableRows)) = TableRows
        /\ \A i \in Jobs :
             LET row == results_file'.rows[Len(TableRows) + i + 1]
             IN  /\ row.generation = current_gen
                 /\ row.run_id = i
                 /\ (row.efficiency = NA) <=> (i \in MissingJobs(current_gen))
                 /\ i \notin MissingJobs(current_gen) =>
                      row.efficiency = RunDirOf(current_gen, i).efficiency.content

\* C3: for every set S of jobs of the collected generation whose efficiency.txt
\* is absent, the collection goes on to the decision and appends exactly
\* NUM_JOBS_PER_ITER rows, 'NA' for exactly the jobs of S and the content of the
\* result file for every other job.
C3_PartialFailure == [][C3_GatherStep]_vars

\* Scenario C: job 3 alone left no result; its row is the one 'NA' row.
C3_Witness ==
    /\ pc = "signal_clear"
    /\ MissingJobs(current_gen) = {3}
    /\ Len(TableRows) >= NUM_JOBS_PER_ITER
    /\ \A i \in Jobs :
         (TableRows[Len(TableRows) - NUM_JOBS_PER_ITER + i + 1].efficiency = NA)
            <=> (i = 3)

\* C4: rows of the indicator table that come from identical sample rows carry
\* identical indicator values, those recorded for the one unique vector equal
\* to them.
C4_DedupBroadcast ==
    sweep_pc = "done" =>
        /\ Len(data_rows) = Len(sample_array)
        /\ \A i, j \in 1..Len(sample_array) :
             sample_array[i] = sample_array[j] =>
                data_rows[i].indicators = data_rows[j].indicators
        /\ \A i \in 1..Len(sample_array) : \A u \in 1..Len(unique_array) :
             unique_array[u] = sample_array[i] =>
                data_rows[i].indicators = outlet_results[u]

\* A matrix with a repeated row and another row, whose runs differ in result.
C4_Witness ==
    /\ sweep_pc = "done"
    /\ Len(unique_array) = 2
    /\ outlet_results[1] # outlet_results[2]
    /\ sample_array[1] = sample_array[3]
    /\ sample_array[1] # sample_array[2]

\* C5: a generation written by update_generation(g) is read back as g, by the
\* reader of the prepare step and by the reader of the check step.
C5_StateRoundTrip ==
    call.fn \in Readers => (~call.failed /\ call.result = call.arg)

\* A two-digit generation read back by the reader of check.py.
C5_Witness ==
    /\ call.fn = "check_get_current_generation"
    /\ call.arg = 12
    /\ call.result = 12
    /\ state_file.content = <<"1", "2">>

StepStarts == pc = "idle" /\ invocations' # invocations
PrepareEnds == pc = "update_write" /\ pc' = "idle"
CheckEnds ==
    \/ pc = "signal_decide" /\ pc' = "idle"
    \/ StepStarts /\ pc' = "idle" /\ last'.step = "check"

C6_Step ==
    /\ StepStarts => (gen_before' = PersistedGeneration /\ state_file' = state_file)
    /\ PrepareEnds => PersistedGeneration' = gen_before + 1
    /\ CheckEnds => PersistedGeneration' = gen_before'

\* C6: over any sequence of prepare and check steps the persisted Generation is
\* 0 at the start, one more than before after each completed prepare step, and
\* what it was after each check step: from one step to the next it never
\* decreases and never skips a value.
C6_GenerationCounts == (PersistedGeneration = 0) /\ [][C6_Step]_vars

\* Three prepare steps with a check step among them.
C6_Witness ==
    /\ pc = "idle"
    /\ last.step = "prepare"
    /\ rounds_done = 1
    /\ PersistedGeneration = 3

Stopped ==
    /\ pc = "idle"
    /\ last.step = "check"
    /\ last.exit = 0
    /\ signal_file.exists
    /\ signal_file.content = <<>>

\* C7: with a maximum of at least 1 the loop workflow reaches the stop signal,
\* it does so with exactly MAX_ITERATIONS rounds completed and the persisted
\* Generation equal to MAX_ITERATIONS, and nothing is prepared afterwards.
C7_Terminates ==
    /\ (MAX_ITERATIONS >= 1) => <>Stopped
    /\ []((MAX_ITERATIONS >= 1 /\ Stopped) =>
            (rounds_done = MAX_ITERATIONS /\ PersistedGeneration = MAX_ITERATIONS))
    /\ [][(MAX_ITERATIONS >= 1 /\ Stopped) =>
            (Stopped' /\ state_file' = state_file /\ dag_files' = dag_files
             /\ gen_dirs' = gen_dirs)]_vars

\* The shipped configuration stopped after its third round.
C7_Witness ==
    /\ Stopped
    /\ MAX_ITERATIONS = 3
    /\ rounds_done = 3
    /\ PersistedGeneration = 3

InOrAfterDecide ==
    signal_fresh /\ (pc = "signal_decide" \/ (pc = "idle" /\ last.step = "check"))

C8_State ==
    /\ signal_file.content \in {<<>>, CONTINUE_TOKEN}
    /\ (InOrAfterDecide /\ signal_file.content = CONTINUE_TOKEN) =>
          current_gen < MAX_ITERATIONS

C8_Step ==
    (signal_file' # signal_file /\ signal_file'.content = CONTINUE_TOKEN) =>
        (signal_file.exists /\ signal_file.content = <<>>)

\* C8: the signal file holds nothing or the token 'continue' and no other
\* content, it becomes 'continue' only from the empty state, and from the first
\* write of check_continue(g) on it holds 'continue' only if g < MAX_ITERATIONS.
C8_NeverMixed == []C8_State /\ [][C8_Step]_vars

\* The stop of the last round, written over the 'continue' of the round before.
C8_Witness ==
    /\ pc = "idle"
    /\ last.step = "check"
    /\ rounds_done = 3
    /\ MAX_ITERATIONS = 3
    /\ signal_file.exists
    /\ signal_file.content = <<>>

\* C9: after a check step has ended, normally or with exit(1), the signal file
\* holds 'continue' only if this check step wrote it.
C9_NoStaleContinue ==
    (pc = "idle" /\ last.step = "check" /\ signal_file.content = CONTINUE_TOKEN)
        => signal_fresh

\* C10: once a first round has been prepared the current-graph pointer is never
\* absent: it names the graph of the previous or of the new generation.
C10_PointerAllOrNothing ==
    last.step # "none" =>
        /\ current_symlink.exists
        /\ current_symlink.target \in {next_gen - 1, next_gen}

\* C11: once a prepare step for generation g has completed, the current-graph
\* pointer names worker_jobs_gen_<g>.dag, that file exists with all of its
\* nodes, g is the persisted Generation, and no graph of a later generation
\* exists that the pointer fails to name.
C11_PointerLatest ==
    (pc = "idle" /\ dag_files # <<>>) =>
        /\ current_symlink.exists
        /\ current_symlink.target = next_gen
        /\ current_symlink.target = PersistedGeneration
        /\ current_symlink.target \in DOMAIN dag_files
        /\ dag_files[current_symlink.target] = dag_text(current_symlink.target)
        /\ Len(dag_files[current_symlink.target]) = NUM_JOBS_PER_ITER
        /\ \A g \in DOMAIN dag_files : g <= current_symlink.target

\* The second prepare step has ended: two graphs, the pointer on the second.
C11_Witness ==
    /\ pc = "idle"
    /\ last.step = "prepare"
    /\ DOMAIN dag_files = {1, 2}
    /\ current_symlink = os_symlink(2)
    /\ PersistedGeneration = 2

\* C12: at every point of a prepare step a reader of the state record finds
\* the Generation persisted before the step or the one the step writes, never
\* a third value.
C12_WriteAtomic ==
    pc # "idle" => PersistedGeneration \in {gen_before, next_gen}

\* The record holds an integer that is not negative.
ValidRecord ==
    /\ state_file.exists
    /\ int(state_file.content).ok
    /\ int(state_file.content).value >= 0

\* C13: a prepare step that finds the state record absent or not holding a
\* valid non-negative integer reads generation 0 and prepares generation 1.
C13_BootstrapDefaultsToZero ==
    (pc = "prepare_generation" /\ ~ValidRecord) =>
        (current_gen = 0 /\ next_gen = 1)

\* C14: a check step collects only if the state record holds a valid integer
\* of at least 1; the table never receives a row of any other generation.
C14_ResumeRejectsInvalid ==
    /\ pc = "gather" => (ValidRecord /\ int(state_file.content).value >= 1)
    /\ \A k \in 1..Len(TableRows) : TableRows[k].generation >= 1

C15_Step ==
    results_file' # results_file =>
        /\ pc = "gather"
        /\ results_file'.exists
        /\ results_file'.header
        /\ results_file.exists => results_file'.header = results_file.header
        /\ Len(results_file'.rows) > Len(TableRows)
        /\ SubSeq(results_file'.rows, 1, Len(TableRows)) = TableRows
        /\ \A k \in (Len(TableRows) + 1)..Len(results_file'.rows) :
             results_file'.rows[k].generation = current_gen

\* C15: the results table changes only by gather_and_append_results, and the
\* call keeps every earlier row unchanged at its position and puts the rows of
\* the collected generation after them.
C15_AppendOnly == [][C15_Step]_vars

\* The rows of generation 2 behind the rows of generation 1.
C15_Witness ==
    /\ pc = "signal_clear"
    /\ current_gen = 2
    /\ Len(TableRows) = 2 * NUM_JOBS_PER_ITER
    /\ \A k \in 1..NUM_JOBS_PER_ITER : TableRows[k].generation = 1
    /\ \A k \in (NUM_JOBS_PER_ITER + 1)..(2 * NUM_JOBS_PER_ITER) :
         TableRows[k].generation = 2
    /\ TableRows[1].efficiency # NA

DistinctRows(matrix) == {matrix[k] : k \in 1..Len(matrix)}

\* C16: when a sample step of sweep mode has ended, the job graph has as many
\* nodes as the sample matrix has distinct rows and no two jobs' calibration
\* files carry the same sample vector.
C16_OnlyUniqueSent ==
    ctrl.step = "sample" =>
        /\ Len(worker_jobs_dag.nodes) = Cardinality(DistinctRows(ctrl.sample_array))
        /\ \A i, j \in 1..Len(worker_jobs_dag.nodes) :
             i # j => cal_files[i] # cal_files[j]

SomeResultPresent ==
    \E k \in 1..Len(detect_method.sample_out_file.samples) :
       ResultDirOf(k).performance.exists

\* C17: whichever results are missing, as long as one is present, the analyze
\* step that found its sample file ends without error and leaves an indicator
\* table with exactly one row for every row of the sample matrix, row k under
\* sample index k.
C17_OneRowPerSample ==
    (ctrl.step = "analyze" /\ detect_method.found /\ SomeResultPresent) =>
        /\ ~ctrl.failed
        /\ indicator_file.exists
        /\ Len(indicator_file.rows) = Len(detect_method.sample_out_file.samples)
        /\ \A k \in 1..Len(indicator_file.rows) : indicator_file.rows[k].sim_index = k

\* C18: an analyze step that ran to its end used the estimator of the method of
\* the most recent sample step and that step's sample matrix, and every result
\* it analyzed came from a run of that method's graph.
C18_MatchingEstimator ==
    (ctrl.step = "analyze" /\ ~ctrl.failed) =>
        /\ json_file.content.estimator = ctrl.METHOD
        /\ detect_method.sample_out_file.samples = ctrl.sample_array
        /\ \A k \in 1..Len(indicator_file.rows) :
             ResultDirOf(indicator_file.rows[k].sim_index).performance.run_of
                = json_file.content.estimator

\* An analyze step started right after an analyze step: same sample file, same
\* result files.
AnalyzeAgain == ctrl'.reruns # ctrl.reruns

SamplesKept ==
    /\ fast_sample_file' = fast_sample_file
    /\ morris_sample_file' = morris_sample_file
    /\ sensim_file' = sensim_file

\* C19 as stated: the analyze step run again on the same sample file and the
\* same result files leaves the same indicator table and the same sensitivity
\* result file, and leaves the sample files as they are.
C19_RerunSameArtifacts ==
    [][AnalyzeAgain =>
         (indicator_file' = indicator_file /\ json_file' = json_file /\ SamplesKept)]_vars

SameIndices(a, b) ==
    /\ a.exists = b.exists
    /\ a.exists => /\ a.content.estimator = b.content.estimator
                   /\ a.content.X = b.content.X
                   /\ a.content.Y = b.content.Y

\* C19 amended: the analyze step run again leaves the same indicator table,
\* without duplicated rows, and a sensitivity result file computed by the same
\* estimator from the same samples and indicator values; it fails if and only
\* if the first run failed, and it leaves the sample files as they are.
C19_RerunSameInputs ==
    [][AnalyzeAgain =>
         /\ indicator_file' = indicator_file
         /\ SameIndices(json_file', json_file)
         /\ ctrl'.failed = ctrl.failed
         /\ SamplesKept]_vars

\* A second analysis of a complete sweep, with two of three results present.
C19_Witness ==
    /\ ctrl.step = "analyze"
    /\ ctrl.reruns = 1
    /\ ~ctrl.failed
    /\ indicator_file.exists
    /\ Len(indicator_file.rows) = 2
    /\ json_file.exists
    /\ json_file.content.estimator = "Morris"

Elements(seq) == {seq[k] : k \in 1..Len(seq)}

\* A graph of the loop workflow: one node per job, names and bindings
\* pairwise distinct, JOB and VARS lines only, the parameter file and the run
\* directory of every node present.
LoopGraphOk(g) ==
    LET nodes == dag_files[g]
    IN  /\ Len(nodes) = NUM_JOBS_PER_ITER
        /\ \A a, b \in 1..Len(nodes) :
             a # b => /\ nodes[a].node_name # nodes[b].node_name
                      /\ nodes[a].ParamFile # nodes[b].ParamFile
                      /\ nodes[a].RunDir # nodes[b].RunDir
        /\ \A k \in 1..Len(nodes) :
             /\ Elements(nodes[k].keywords) \subseteq {"JOB", "VARS"}
             /\ nodes[k].RunDir[1] \in DOMAIN gen_dirs
             /\ nodes[k].ParamFile[1] \in DOMAIN gen_dirs
             /\ gen_dirs[nodes[k].ParamFile[1]][nodes[k].ParamFile[2]].params.exists

\* The graph of a sweep: one node per row of the sample matrix, names and
\* bindings pairwise distinct, JOB and VARS lines only, the calibration file
\* of every node present.
SweepGraphOk ==
    LET nodes == worker_jobs_dag.nodes
    IN  /\ worker_jobs_dag.exists
        /\ Len(nodes) = Len(ctrl.sample_array)
        /\ \A a, b \in 1..Len(nodes) :
             a # b => /\ nodes[a].node_name # nodes[b].node_name
                      /\ nodes[a].ParamFile # nodes[b].ParamFile
                      /\ nodes[a].ResultDir # nodes[b].ResultDir
        /\ \A k \in 1..Len(nodes) :
             /\ Elements(nodes[k].keywords) \subseteq {"JOB", "VARS"}
             /\ nodes[k].ParamFile[2] \in DOMAIN cal_files

SweepResultDirsExist ==
    \A k \in 1..Len(worker_jobs_dag.nodes) :
       ResultDirOf(worker_jobs_dag.nodes[k].ResultDir[2]).exists

\* C20 as stated: when an emitting step has completed, its graph has one node
\* per sample with distinct names and no dependency lines, and every node's
\* input file and output directory exist.
C20_GraphBindingsExist ==
    /\ pc = "idle" => \A g \in DOMAIN dag_files : LoopGraphOk(g)
    /\ ctrl.step = "sample" => (SweepGraphOk /\ SweepResultDirsExist)

\* C20 amended: as stated for the names, the lines and the input files; the
\* output directory of a node exists when the emitting step completes in loop
\* mode, and in sweep mode it exists once the node's worker has run.
C20_GraphBindings ==
    /\ pc = "idle" => \A g \in DOMAIN dag_files : LoopGraphOk(g)
    /\ ctrl.step = "sample" => SweepGraphOk
    /\ \A k \in DOMAIN result_dirs : result_dirs[k].exists

\* A sweep graph of three nodes just emitted into an empty directory: the
\* calibration files are there, no result directory is.
C20_Witness ==
    /\ ctrl.step = "sample"
    /\ ctrl.samples = 1
    /\ Len(worker_jobs_dag.nodes) = CtrlRows
    /\ DOMAIN cal_files = 1..CtrlRows
    /\ \A k \in 1..CtrlRows : ~ResultDirOf(k).exists

\* A well-formed line: four comma-separated fields whose third and fourth are
\* numbers, not blank and not a comment.
WellFormed(raw_line) ==
    LET line == strip(raw_line)
        parts == split(line, ",")
    IN  /\ line # <<>>
        /\ ~startswith(line, "#")
        /\ Len(parts) = 4
        /\ float_literal(parts[3]).ok
        /\ float_literal(parts[4]).ok

RawName(raw_line) == strip(split(strip(raw_line), ",")[1])

Scoped(raw_line) == \E k \in 1..Len(RawName(raw_line)) : RawName(raw_line)[k] = "|"

\* The scope of a scoped name resolves: three parts, the object type and the
\* group are in the spatial data and the group has the id field of its type.
Resolves(raw_line) ==
    LET name_parts == split(RawName(raw_line), "|")
        object_type == strip(name_parts[2])
        group_name == strip(name_parts[3])
    IN  /\ Len(name_parts) = 3
        /\ object_type \in DOMAIN spatial_data_config
        /\ group_name \in DOMAIN spatial_data_config[object_type]
        /\ object_type \in {HRU, RTE}
        /\ (IF object_type = HRU THEN HRU_IDS ELSE CHANNEL_IDS)
             \in DOMAIN spatial_data_config[object_type][group_name]

\* param_def is, in order, one parameter for every line of kept: the change
\* type and the bounds of the line, under the name of the line.
OnePerLine(kept) ==
    /\ Len(param_def) = Len(kept)
    /\ \A k \in 1..Len(kept) :
         LET parts == split(strip(kept[k]), ",")
         IN  /\ param_def[k].name
                  = (IF parse_call = "ctrl_sensitivity_sample.py"
                     THEN strip(split(RawName(kept[k]), "|")[1])
                     ELSE RawName(kept[k]))
             /\ param_def[k].change_type = strip(parts[2])
             /\ param_def[k].lower_bound = float_literal(parts[3]).value
             /\ param_def[k].upper_bound = float_literal(parts[4]).value

\* C21 as stated: parse_parameter_file returns, in file order, exactly one
\* parameter per well-formed line; blank lines, comment lines and malformed
\* lines are passed over without ending the parse.
C21_OnePerWellFormedLine ==
    parse_call \in Parsers =>
      OnePerLine(SelectSeq(param_def_file.lines, WellFormed))

Returned(raw_line) ==
    /\ WellFormed(raw_line)
    /\ (parse_call = "ctrl_sensitivity_sample.py" /\ Scoped(raw_line))
         => Resolves(raw_line)

\* C21 amended: parse_parameter_file returns, in file order, exactly one
\* parameter per well-formed line, except that the parser of
\* ctrl_sensitivity_sample.py also passes over a well-formed line whose name
\* holds '|' and is not a scope of three parts that resolves in the spatial
\* group data; blank lines, comment lines and malformed lines are passed over
\* without ending the parse.
C21_OnePerReturnedLine ==
    parse_call \in Parsers =>
      OnePerLine(SelectSeq(param_def_file.lines, Returned))

\* A file of three lines: a malformed line, a well-formed line, a comment; one
\* parameter is returned.
C21_Witness ==
    /\ parse_call \in Parsers
    /\ param_def_file.exists
    /\ Len(param_def_file.lines) = MaxLines
    /\ ~WellFormed(param_def_file.lines[1])
    /\ ~ignored(strip(param_def_file.lines[1]))
    /\ WellFormed(param_def_file.lines[2])
    /\ startswith(param_def_file.lines[3], "#")
    /\ Len(param_def) = 1

\* The id list the scope of a line resolves to.
ScopeIds(raw_line) ==
    LET name_parts == split(RawName(raw_line), "|")
        object_type == strip(name_parts[2])
    IN  spatial_data_config[object_type][strip(name_parts[3])]
                           [IF object_type = HRU THEN HRU_IDS ELSE CHANNEL_IDS]

Unresolved(raw_line) ==
    WellFormed(raw_line) /\ Scoped(raw_line) /\ ~Resolves(raw_line)

Resolved(raw_line) == ~Unresolved(raw_line)

\* C30: in ctrl_sensitivity_sample.py a parameter whose name is a scope
\* 'name|object_type|group' carries the id list the scope resolves to, a
\* parameter with an unscoped name carries units = None, and a scope that
\* does not resolve costs that one parameter only: the list returned is the
\* one returned for the file without the lines of unresolved scope.
C30_ScopeResolution ==
    parse_call = "ctrl_sensitivity_sample.py" =>
      LET lines == param_def_file.lines
          kept == SelectSeq(lines, Returned)
      IN  /\ Len(param_def) = Len(kept)
          /\ \A k \in 1..Len(kept) :
               param_def[k].units
                 = (IF Scoped(kept[k])
                    THEN [none |-> FALSE, ids |-> ScopeIds(kept[k])]
                    ELSE None)
          /\ param_def
               = parse_parameter_file(
                   [exists |-> param_def_file.exists,
                    lines |-> SelectSeq(lines, Resolved)],
                   spatial_data_config)

\* A scope that resolves, a scope that does not, an unscoped name: two
\* parameters, the first with its id list, the second global.
C30_Witness ==
    /\ parse_call = "ctrl_sensitivity_sample.py"
    /\ Len(param_def_file.lines) = MaxLines
    /\ WellFormed(param_def_file.lines[1])
    /\ Scoped(param_def_file.lines[1])
    /\ Resolves(param_def_file.lines[1])
    /\ Unresolved(param_def_file.lines[2])
    /\ WellFormed(param_def_file.lines[3])
    /\ ~Scoped(param_def_file.lines[3])
    /\ Len(param_def) = 2
    /\ ~param_def[1].units.none
    /\ param_def[2].units.none

SampleStep == ctrl'.samples = ctrl.samples + 1

\* C22: the materialization loop of the sample step leaves the template
\* directory TxtInOut as it found it, the same files with the same contents,
\* and every artifact ends at its own path sim_<i>.cal.
C22_TemplateUntouched ==
    [][SampleStep =>
         /\ tio_dir' = tio_dir
         /\ \A i \in 1..Len(ctrl'.sample_array) :
              i \in DOMAIN cal_files' /\ cal_files'[i] = ctrl'.sample_array[i]]_vars

SampleFileOf(METHOD, fast, morris) == IF METHOD = "FAST" THEN fast ELSE morris

\* C24: the sample step is deterministic: run twice with the same
\* configuration, it writes a sample matrix of the same shape and the same
\* values.
C24_SampleDeterministic ==
    [][(SampleStep /\ ctrl.step = "sample" /\ ctrl'.METHOD = ctrl.METHOD) =>
         LET before == SampleFileOf(ctrl.METHOD, fast_sample_file,
                                    morris_sample_file)
             after == SampleFileOf(ctrl.METHOD, fast_sample_file',
                                   morris_sample_file')
         IN  /\ Len(after.samples) = Len(before.samples)
             /\ after.samples = before.samples]_vars

\* C25 as stated: in the loop workflow the persisted Generation never exceeds
\* the configured maximum, for every maximum from 0 upwards.
C25_GenerationBounded == PersistedGeneration <= MAX_ITERATIONS

\* C25 amended: in the loop workflow the persisted Generation never exceeds
\* the configured maximum when that is at least 1, and never exceeds 1 when
\* it is 0: the first round is prepared before any decision is taken.
C25_GenerationBoundedAfterFirst ==
    PersistedGeneration <= (IF MAX_ITERATIONS >= 1 THEN MAX_ITERATIONS ELSE 1)

\* The workflow has stopped at the maximum: the check step of the last round
\* left the signal empty and the Generation is the maximum.
C25_Witness ==
    /\ MAX_ITERATIONS >= 2
    /\ pc = "idle"
    /\ last.step = "check"
    /\ last.exit = 0
    /\ ~SignalContinue
    /\ PersistedGeneration = MAX_ITERATIONS

\* C26: when the analyze step has run to its end, the indicator vector Y it
\* gave to the estimator has one entry for every row of the sample matrix X,
\* and entry k is the result of the job of sample row k, the one in
\* OutletsResults_<k>, whichever jobs produced a result.
C26_IndexAlignment ==
    (ctrl.step = "analyze" /\ ~ctrl.failed) =>
        LET X == detect_method.sample_out_file.samples
            Y == json_file.content.Y
        IN  /\ Len(Y) = Len(X)
            /\ \A k \in 1..Len(Y) :
                 /\ ResultDirOf(k).performance.exists
                 /\ Y[k] = ResultDirOf(k).performance.indicators

InCheckStep ==
    \/ pc \in {"gather", "signal_clear", "signal_decide"}
    \/ pc = "idle" /\ pc' = "gather"
    \/ StepStarts /\ pc' = "idle" /\ last'.step = "check"

InPrepareStep ==
    \/ pc \in {"prepare_generation", "symlink_remove", "symlink_create",
               "update_open", "update_write"}
    \/ pc = "idle" /\ pc' = "prepare_generation"

\* The job input artifacts: params.txt of every run directory.
JobInputs(dirs) ==
    [g \in DOMAIN dirs |-> [i \in Jobs |-> dirs[g][i].params]]

C27_Step ==
    /\ InCheckStep =>
         /\ state_file' = state_file
         /\ dag_files' = dag_files
         /\ current_symlink' = current_symlink
         /\ JobInputs(gen_dirs') = JobInputs(gen_dirs)
    /\ InPrepareStep =>
         /\ results_file' = results_file
         /\ signal_file' = signal_file
         /\ DOMAIN gen_dirs' \subseteq DOMAIN gen_dirs \cup {next_gen'}
         /\ DOMAIN dag_files' \subseteq DOMAIN dag_files \cup {next_gen'}
         /\ \A g \in DOMAIN gen_dirs \ {next_gen'} :
              g \in DOMAIN gen_dirs' /\ gen_dirs'[g] = gen_dirs[g]
         /\ \A g \in DOMAIN dag_files \ {next_gen'} :
              g \in DOMAIN dag_files' /\ dag_files'[g] = dag_files[g]

\* C27: no file operation of a check step changes the state record, a graph
\* file, the pointer or a parameter file; no file operation of a prepare step
\* changes the results table, the signal file, or a graph file, run directory
\* or parameter file of a generation other than the one it prepares.
C27_SingleOwnerFrame == [][C27_Step]_vars

\* A check step has run to its end after the second generation was prepared:
\* two graphs, two sets of run directories, rows in the table.
C27_Witness ==
    /\ pc = "idle"
    /\ last = [step |-> "check", exit |-> 0]
    /\ Cardinality(DOMAIN gen_dirs) >= 2
    /\ Cardinality(DOMAIN dag_files) >= 2
    /\ results_file.exists
    /\ PersistedGeneration = 2

\* C29: started in the same state, prepare.py and controller.py --step
\* prepare leave the same state record, the same run directories and
\* parameter file paths, a graph file of the same name and the same pointer
\* target; check.py and controller.py --step check_continue fail on the same
\* state records and otherwise leave the same table and the same signal.
C29_TwinsEquivalent ==
    call.fn \in {"prepare", "check_continue"} =>
        /\ Len(call.result) = 2
        /\ call.result[1] = call.result[2]

\* Both check scripts started on a valid record of generation 2 with results
\* to gather: neither fails, the table grows.
C29_Witness ==
    /\ call.fn = "check_continue"
    /\ PersistedGeneration = 2
    /\ call.result[2].exit = 0
    /\ Len(call.result[2].results_file.rows) > Len(results_file.rows)
    /\ call.result[2].signal_file.content = CONTINUE_TOKEN

Executing(i) == WorkerOf(i).pc = "moved"

\* C28: two distinct jobs have different input artifact paths and different
\* output directories, in loop mode across generations and run indices and
\* in sweep mode across sample indices, and two jobs that execute at the
\* same time touch no file in common.
C28_JobsShareNothing ==
    /\ \A g, h \in DOMAIN dag_files :
         \A a \in 1..Len(dag_files[g]), b \in 1..Len(dag_files[h]) :
            (g # h \/ a # b) =>
               /\ dag_files[g][a].ParamFile # dag_files[h][b].ParamFile
               /\ dag_files[g][a].RunDir # dag_files[h][b].RunDir
    /\ \A a, b \in 1..Len(worker_jobs_dag.nodes) :
         a # b =>
            /\ worker_jobs_dag.nodes[a].ParamFile # worker_jobs_dag.nodes[b].ParamFile
            /\ worker_jobs_dag.nodes[a].ResultDir # worker_jobs_dag.nodes[b].ResultDir
    /\ \A i, j \in DOMAIN workers :
         (i # j /\ Executing(i) /\ Executing(j)) =>
            WorkerOf(i).touched \cap WorkerOf(j).touched = {}


====
